---- MODULE Spec2Model ----
(***************************************************************************)
(* Model of src/src/jenks.rs: the randomized Jenks natural-breaks search   *)
(* (get_jenks_breaks), its sampler (pick_rand_breaks) and its scorers      *)
(* (calc_gvf, calc_gssd).                                                  *)
(*                                                                         *)
(* Numbers.  usize is modelled with UsizeBits bits (wrapping in a release  *)
(* build, panicking in a build with overflow checks).  f64 is modelled as  *)
(* exact rationals of magnitude at most FMax, plus +inf, -inf and NaN with *)
(* the IEEE-754 rules for them: a result larger than FMax overflows to an  *)
(* infinity, 0/0, inf/inf and inf-inf are NaN, every comparison with NaN   *)
(* is false.  Rounding of finite results is not modelled.                  *)
(***************************************************************************)
EXTENDS Integers, Sequences, FiniteSets

\* ------------------------------------------------------------------ bounds
MaxLen == 4        \* longest data vector explored
MaxBins == 3       \* largest requested bin count explored
MaxTrials == 3     \* iterations of the trial loop explored per call
MaxDraws == 3      \* generator draws explored per pick_rand_breaks call
MaxBreaks == 2     \* longest breaks vector handed to pick_rand_breaks directly
MaxUnique == 4     \* largest num_vals handed to pick_rand_breaks directly
UsizeBits == 29    \* width of usize in the model
FMax == 15         \* largest finite f64 magnitude in the model

\* ------------------------------------------------------------ usize, ranges
UsizeModulus == 2 ^ UsizeBits
UsizeMax == UsizeModulus - 1
IsizeMax == 2 ^ (UsizeBits - 1) - 1

Min(a, b) == IF a <= b THEN a ELSE b
Abs(x) == IF x < 0 THEN -x ELSE x
Sign(x) == IF x < 0 THEN -1 ELSE 1

\* a - b on usize in a build without overflow checks
WrappingSub(a, b) == (a - b + UsizeModulus) % UsizeModulus
\* whether a - b on usize overflows
SubOverflows(a, b) == a < b
\* The builds a subtraction on usize can behave differently in: only when it
\* overflows does it matter whether overflow checks are compiled in (TRUE:
\* it panics) or not (FALSE: it wraps).
Builds(overflows) == IF overflows THEN {TRUE, FALSE} ELSE {FALSE}

RECURSIVE Gcd(_, _)
Gcd(a, b) == IF b = 0 THEN a ELSE Gcd(b, a % b)

\* ---------------------------------------------------------------------- f64
NaN == [k |-> "nan", n |-> 0, d |-> 1]
Inf(s) == [k |-> "inf", n |-> s, d |-> 1]
\* the f64 nearest n/d (d > 0): the reduced fraction, or an infinity past FMax
FRat(n, d) ==
    IF Abs(n) > FMax * d THEN Inf(Sign(n))
    ELSE LET g == Gcd(Abs(n), d) IN [k |-> "fin", n |-> n \div g, d |-> d \div g]
FInt(x) == FRat(x, 1)
FZero == FInt(0)
FOne == FInt(1)
IsZero(a) == a.k = "fin" /\ a.n = 0

FNeg(a) == IF a.k = "nan" THEN NaN ELSE [a EXCEPT !.n = -a.n]
FAdd(a, b) ==
    CASE a.k = "nan" \/ b.k = "nan" -> NaN
      [] a.k = "inf" /\ b.k = "inf" -> IF a.n = b.n THEN a ELSE NaN
      [] a.k = "inf" -> a
      [] b.k = "inf" -> b
      [] OTHER -> FRat(a.n * b.d + b.n * a.d, a.d * b.d)
FSub(a, b) == FAdd(a, FNeg(b))
FMul(a, b) ==
    CASE a.k = "nan" \/ b.k = "nan" -> NaN
      [] a.k = "inf" /\ IsZero(b) -> NaN
      [] b.k = "inf" /\ IsZero(a) -> NaN
      [] a.k = "inf" \/ b.k = "inf" -> Inf(Sign(a.n) * Sign(b.n))
      [] OTHER -> FRat(a.n * b.n, a.d * b.d)
FDiv(a, b) ==
    CASE a.k = "nan" \/ b.k = "nan" -> NaN
      [] a.k = "inf" /\ b.k = "inf" -> NaN
      [] IsZero(a) /\ IsZero(b) -> NaN
      [] a.k = "inf" -> Inf(Sign(a.n) * Sign(b.n))
      [] b.k = "inf" -> FZero
      [] IsZero(b) -> Inf(Sign(a.n))
      [] OTHER -> FRat(a.n * b.d * Sign(b.n), a.d * Abs(b.n))
\* a > b on f64: false as soon as one side is NaN
FGt(a, b) ==
    CASE a.k = "nan" \/ b.k = "nan" -> FALSE
      [] a.k = "inf" /\ b.k = "inf" -> a.n > b.n
      [] a.k = "inf" -> a.n > 0
      [] b.k = "inf" -> b.n < 0
      [] OTHER -> a.n * b.d > b.n * a.d

\* ------------------------------------------------------- sequence helpers
RECURSIVE Insert(_, _)
Insert(x, s) ==
    IF s = <<>> THEN <<x>>
    ELSE IF x <= Head(s) THEN <<x>> \o s
    ELSE <<Head(s)>> \o Insert(x, Tail(s))

\* Vec::sort_by(partial_cmp) / sort_unstable: the ascending rearrangement
RECURSIVE Sort(_)
Sort(s) == IF s = <<>> THEN <<>> ELSE Insert(Head(s), Sort(Tail(s)))

Range(s) == {s[j] : j \in 1..Len(s)}
\* vec![0_usize; len]
ZeroVec(len) == [j \in 1..len |-> 0]
\* the sequences over S of length lo..hi
SeqsOf(S, lo, hi) == UNION {[1..m -> S] : m \in lo..hi}
\* the orders in which a set can be iterated
Orders(S) == {o \in [1..Cardinality(S) -> S] : Range(o) = S}

\* ------------------------------------------------- unique-value index mapper
\* One entry per run of equal values of the sorted data: the value, the
\* (0-based) index of the run's first element, the run's length.
RECURSIVE UniqueFrom(_, _)
UniqueFrom(vals, at) ==
    IF at > Len(vals) THEN <<>>
    ELSE LET run == Cardinality({j \in at..Len(vals) : vals[j] = vals[at]})
         IN <<[val |-> vals[at], first |-> at - 1, count |-> run]>>
            \o UniqueFrom(vals, at + run)
create_unique_val_mapping(vals) == UniqueFrom(vals, 1)

\* normal_break[i] = unique_value_entries[unique_break[i]].start_index
unique_to_normal_breaks(u_breaks, unique_val_map) ==
    [j \in 1..Len(u_breaks) |-> unique_val_map[u_breaks[j] + 1].first]

\* ------------------------------------------------------------ calc_gssd
RECURSIVE SumF(_)
SumF(items) == IF items = <<>> THEN FZero ELSE FAdd(SumF(SubSeq(items, 1, Len(items) - 1)), items[Len(items)])
\* the loops `ssd += (item - mean) * (item - mean)`, started at 0.0
Square(x) == FMul(x, x)
SumSqDev(items, mean) ==
    SumF([j \in 1..Len(items) |-> Square(FSub(FInt(items[j]), mean))])
\* the loops `mean += item`, started at 0.0
SumVals(items) == SumF([j \in 1..Len(items) |-> FInt(items[j])])

\* defined for non-empty data; data[0] panics on empty data (see Setup)
calc_gssd(vals) ==
    LET mean == FDiv(SumVals(vals), FInt(Len(vals)))
    IN SumSqDev(vals, mean)

\* ------------------------------------------------------------- calc_gvf
\* vals.iter().take(upper).skip(lower)
TakeSkip(vals, upper, lower) ==
    LET hi == Min(upper, Len(vals))
    IN IF lower >= hi THEN <<>> ELSE SubSeq(vals, lower + 1, hi)
Lower(breaks, b) == IF b = 0 THEN 0 ELSE breaks[b]
Upper(breaks, vals, b) == IF b = Len(breaks) THEN Len(vals) ELSE breaks[b + 1]
\* sum of squared deviations of bin b (0-based) from its own mean
BinSsd(breaks, vals, b) ==
    LET lower == Lower(breaks, b)
        upper == Upper(breaks, vals, b)
        items == TakeSkip(vals, upper, lower)
        width == IF upper >= lower THEN upper - lower ELSE WrappingSub(upper, lower)
        mean == FDiv(SumVals(items), FInt(width))
    IN SumSqDev(items, mean)
\* whether some bin's `upper - lower` overflows
GvfOverflows(breaks, vals) ==
    \E b \in 0..Len(breaks) : SubOverflows(Upper(breaks, vals, b), Lower(breaks, b))
\* [panic, gvf]: with overflow checks, `upper - lower` panics when a bin's
\* upper bound is below its lower bound
calc_gvf(breaks, vals, gssd, checks) ==
    LET tssd == SumF([j \in 1..(Len(breaks) + 1) |-> BinSsd(breaks, vals, j - 1)])
    IN IF checks /\ GvfOverflows(breaks, vals)
       THEN [panic |-> TRUE, gvf |-> NaN]
       ELSE [panic |-> FALSE, gvf |-> FSub(FOne, FDiv(tssd, gssd))]

\* ------------------------------------------------------- pick_rand_breaks
\* a generator whose range starts one too low
GenRangeFromZero(lo, hi) == (lo - 1)..(hi - 1)
\* the values rng.gen_range(lo..hi) can return; an empty range panics
GenRange(lo, hi) == lo..(hi - 1)
\* the set after inserting the first m draws
Inserted(draws, m) == {draws[j] : j \in 1..m}
\* number of draws the loop `while set.len() < num_breaks` consumes from draws
\* (Len(draws) + 1 when it needs more than draws holds)
DrawsUsed(draws, num_breaks) ==
    LET enough == {m \in 0..Len(draws) : Cardinality(Inserted(draws, m)) >= num_breaks}
    IN IF enough = {} THEN Len(draws) + 1
       ELSE CHOOSE m \in enough : \A m2 \in enough : m <= m2
\* `num_vals - 1` as the guard reads it
GuardLimit(num_vals) == IF num_vals >= 1 THEN num_vals - 1 ELSE WrappingSub(num_vals, 1)
\* breaks after the fill loop, before the sort: the set's elements in the
\* order the HashSet iterates them
Filled(breaks, order) ==
    [j \in 1..Len(breaks) |-> IF j <= Len(order) THEN order[j] ELSE breaks[j]]
\* a sampler that forgets the final sort
NoSort(s) == s
\* breaks.sort_unstable()
SortUnstable(s) == Sort(s)
\* status "ok": returned, "panic": panicked, "starved": needs more draws than
\* draws holds.  used: draws consumed.  order: the HashSet's iteration order.
pick_rand_breaks(breaks, num_vals, draws, order, checks) ==
    LET num_breaks == Len(breaks)
        used == DrawsUsed(draws, num_breaks)
    IN CASE checks /\ SubOverflows(num_vals, 1) ->
              [status |-> "panic", breaks |-> breaks, used |-> 0]
         [] num_breaks > GuardLimit(num_vals) ->
              [status |-> "ok", breaks |-> breaks, used |-> 0]
         [] num_breaks > 0 /\ GenRange(1, num_vals) = {} ->
              [status |-> "panic", breaks |-> breaks, used |-> 0]
         [] used > Len(draws) ->
              [status |-> "starved", breaks |-> breaks, used |-> Len(draws)]
         [] OTHER ->
              [status |-> "ok", breaks |-> SortUnstable(Filled(breaks, order)), used |-> used]

\* ---------------------------------------------------------- get_jenks_breaks
VARIABLES
    data,               \* the caller's data vector (values as integers)
    num_bins,           \* the requested bin count
    num_vals,           \* data.len()
    pc,                 \* "start", "loop" (at the head of the trial loop),
                        \* "done" (returned nat_breaks), "panic"; for a direct
                        \* pick_rand_breaks call: "pick", "returned", "panic"
    sorted_data, unique_val_map, num_unique_vals, true_num_bins, gssd,
    rand_breaks, best_breaks, unique_rand_breaks, max_gvf,
    permutations,
    trial,              \* iterations of the trial loop executed so far
    trial_log,          \* per executed trial: the boundary set scored, its score
    nat_breaks,         \* the returned breaks
    tape,               \* outputs of StdRng::seed_from_u64(123456789) seen so far
    pseudo_rng,         \* the generator's position in its output sequence
    call,               \* 1 or 2: which of two successive calls is running
    first_breaks,       \* what the first of the two calls returned
    first_log,          \* the trial_log of the first of the two calls
    breaks_before,      \* direct pick_rand_breaks call: breaks as passed in
    draws_used          \* direct pick_rand_breaks call: draws consumed

locals == <<sorted_data, unique_val_map, num_unique_vals, true_num_bins, gssd,
            rand_breaks, best_breaks, unique_rand_breaks, max_gvf>>
inputs == <<data, num_bins>>
rngVars == <<tape, pseudo_rng>>
twiceVars == <<call, first_breaks, first_log>>
pickVars == <<breaks_before, draws_used>>
vars == <<data, num_bins, num_vals, pc, sorted_data, unique_val_map,
          num_unique_vals, true_num_bins, gssd, rand_breaks, best_breaks,
          unique_rand_breaks, max_gvf, permutations, trial, trial_log,
          nat_breaks, tape, pseudo_rng, call, first_breaks, first_log, breaks_before,
          draws_used>>

\* data vectors explored: small close values (finite arithmetic throughout) and
\* widely spread values (squared deviations overflow)
CloseValues == {0, 1, 2}
SpreadValues == {-9, -3, 3, 9}
Injective(s) == \A j, l \in 1..Len(s) : j # l => s[j] # s[l]
Inputs ==
    SeqsOf(CloseValues, 0, MaxLen)
      \cup {s \in SeqsOf(SpreadValues, 0, MaxLen) : Injective(s)}

\* values of the locals before get_jenks_breaks has assigned them
Unset ==
    /\ sorted_data = <<>>
    /\ unique_val_map = <<>>
    /\ num_unique_vals = 0
    /\ true_num_bins = 0
    /\ gssd = FZero
    /\ rand_breaks = <<>>
    /\ best_breaks = <<>>
    /\ unique_rand_breaks = <<>>
    /\ max_gvf = FZero
    /\ permutations = 0
    /\ trial = 0
    /\ trial_log = <<>>
    /\ nat_breaks = <<>>
    /\ num_vals = 0

\* the variables a specification does not use
NoTwice == call = 1 /\ first_breaks = <<>> /\ first_log = <<>>
NoPick == breaks_before = <<>> /\ draws_used = 0
NoTape == tape = <<>> /\ pseudo_rng = 0

Init ==
    /\ data \in Inputs
    /\ num_bins \in 0..MaxBins
    /\ pc = "start"
    /\ Unset
    /\ NoTape
    /\ NoTwice
    /\ NoPick

\* a driver that sizes its vectors by the requested bin count alone
TrueNumBinsNoMin(d, bins) == bins
\* std::cmp::min(&num_unique_vals, num_bins)
TrueNumBins(d, bins) == Min(Len(create_unique_val_mapping(Sort(d))), bins)

\* a driver that computes the length with saturating_sub
BreaksLenSaturating(tnb, checks) ==
    [panic |-> FALSE, len |-> IF tnb >= 1 THEN tnb - 1 ELSE 0]
\* `true_num_bins - 1`, the length of the three index vectors
BreaksLen(tnb, checks) ==
    IF tnb >= 1 THEN [panic |-> FALSE, len |-> tnb - 1]
    ELSE IF checks THEN [panic |-> TRUE, len |-> 0]
    ELSE [panic |-> FALSE, len |-> WrappingSub(tnb, 1)]
\* vec![0_usize; len] panics with "capacity overflow" when len * 8 bytes
\* exceed isize::MAX
AllocPanics(len) == len > IsizeMax \div 8

C_NUM == 44000000
PERM_MIN == 10
PERM_MAX == 10000
\* a trial count without the lower clamp
PermutationsNoFloor(n) ==
    LET p == C_NUM \div n
    IN IF p > PERM_MAX THEN PERM_MAX ELSE p
\* the trial count for data of length n >= 1
Permutations(n) ==
    LET p == C_NUM \div n
    IN IF p < PERM_MIN THEN PERM_MIN ELSE IF p > PERM_MAX THEN PERM_MAX ELSE p

\* a driver that goes on with the generator it finds
KeepGenerator == pseudo_rng
\* StdRng::seed_from_u64(123456789): a generator at the start of the seed's
\* output sequence
SeedFromU64 == 0

\* lines 65-97: everything before the trial loop
Setup ==
    /\ pc = "start"
    /\ \E checks \in Builds(SubOverflows(TrueNumBins(data, num_bins), 1)) :
        LET n == Len(data)
            sorted == Sort(data)
            map == create_unique_val_mapping(sorted)
            tnb == TrueNumBins(data, num_bins)
            bl == BreaksLen(tnb, checks)
        IN IF n = 0 \/ bl.panic \/ AllocPanics(bl.len)
           THEN /\ pc' = "panic"
                /\ UNCHANGED <<locals, permutations, num_vals, pseudo_rng>>
           ELSE /\ pc' = "loop"
                /\ num_vals' = n
                /\ sorted_data' = sorted
                /\ unique_val_map' = map
                /\ num_unique_vals' = Len(map)
                /\ true_num_bins' = tnb
                /\ gssd' = calc_gssd(sorted)
                /\ rand_breaks' = ZeroVec(bl.len)
                /\ best_breaks' = ZeroVec(bl.len)
                /\ unique_rand_breaks' = ZeroVec(bl.len)
                /\ max_gvf' = FZero
                /\ permutations' = Permutations(n)
                /\ pseudo_rng' = SeedFromU64
    /\ UNCHANGED <<inputs, trial, trial_log, nat_breaks, tape, twiceVars, pickVars>>

\* the loop `for _ in 0..permutations`; the model follows its first MaxTrials
\* iterations
LoopBound == Min(permutations, MaxTrials)

\* whether the score replaces the best one
Improves(new_gvf, best) == FGt(new_gvf, best)

\* lines 100-106: one iteration of the trial loop, the generator returning
\* draws and the HashSet iterating in order
TrialBody(draws, order) ==
    \E c1 \in Builds(SubOverflows(num_unique_vals, 1)) :
    \E r \in {pick_rand_breaks(unique_rand_breaks, num_unique_vals, draws, order, c1)} :
       /\ r.status # "starved"
       /\ r.used = Len(draws)
       /\ trial' = trial + 1
       /\ IF r.status = "panic"
          THEN /\ pc' = "panic"
               /\ UNCHANGED <<unique_rand_breaks, rand_breaks, max_gvf, best_breaks, trial_log>>
          ELSE \E rb \in {unique_to_normal_breaks(r.breaks, unique_val_map)} :
               \E c2 \in Builds(GvfOverflows(rb, sorted_data)) :
               \E g \in {calc_gvf(rb, sorted_data, gssd, c2)} :
               /\ unique_rand_breaks' = r.breaks
               /\ rand_breaks' = rb
               /\ IF g.panic
                  THEN /\ pc' = "panic"
                       /\ UNCHANGED <<max_gvf, best_breaks, trial_log>>
                  ELSE /\ pc' = "loop"
                       /\ trial_log' = Append(trial_log, [breaks |-> rb, gvf |-> g.gvf])
                       /\ IF Improves(g.gvf, max_gvf)
                          THEN max_gvf' = g.gvf /\ best_breaks' = rb
                          ELSE UNCHANGED <<max_gvf, best_breaks>>
       /\ UNCHANGED <<inputs, num_vals, sorted_data, unique_val_map, num_unique_vals,
                      true_num_bins, gssd, permutations, nat_breaks, twiceVars, pickVars>>

\* the draw sequences one pick_rand_breaks call consumes entirely, and the
\* iteration orders of the set they fill
DrawSeqs(num, count) ==
    {d \in SeqsOf(GenRange(1, num), 0, MaxDraws) : d = <<>> \/ DrawsUsed(d, count) = Len(d)}
OrdersOf(draws) == Orders(Range(draws))

\* one trial, the generator's outputs unconstrained
Trial ==
    /\ pc = "loop"
    /\ trial < LoopBound
    /\ \E draws \in DrawSeqs(num_unique_vals, Len(unique_rand_breaks)) :
         \E order \in OrdersOf(draws) : TrialBody(draws, order)
    /\ UNCHANGED rngVars

\* lines 109-116: map the best boundary indices to data values and return
Finish ==
    /\ pc = "loop"
    /\ trial = LoopBound
    /\ nat_breaks' = [j \in 1..Len(best_breaks) |-> sorted_data[best_breaks[j] + 1]]
    /\ pc' = "done"
    /\ UNCHANGED <<inputs, num_vals, locals, permutations, trial, trial_log,
                   rngVars, twiceVars, pickVars>>

Next == Setup \/ Trial \/ Finish
Spec == Init /\ [][Next]_vars

\* ------------------------------------------- pick_rand_breaks called directly
\* pick_rand_breaks is public: any breaks vector, any num_vals
InitPick ==
    /\ unique_rand_breaks \in SeqsOf(0..MaxUnique, 0, MaxBreaks)
    /\ num_unique_vals \in 0..MaxUnique
    /\ breaks_before = unique_rand_breaks
    /\ draws_used = 0
    /\ pc = "pick"
    /\ data = <<>> /\ num_bins = 0 /\ num_vals = 0
    /\ sorted_data = <<>> /\ unique_val_map = <<>> /\ true_num_bins = 0
    /\ gssd = FZero /\ rand_breaks = <<>> /\ best_breaks = <<>> /\ max_gvf = FZero
    /\ permutations = 0 /\ trial = 0 /\ trial_log = <<>> /\ nat_breaks = <<>>
    /\ NoTape
    /\ NoTwice

\* lines 126-141: one call pick_rand_breaks(&mut unique_rand_breaks,
\* &num_unique_vals, rng), to its return or panic
PickCall ==
    /\ pc = "pick"
    /\ \E draws \in DrawSeqs(num_unique_vals, Len(unique_rand_breaks)) :
       \E order \in OrdersOf(draws), checks \in Builds(SubOverflows(num_unique_vals, 1)) :
       \E r \in {pick_rand_breaks(unique_rand_breaks, num_unique_vals, draws, order, checks)} :
          /\ r.status # "starved"
          /\ r.used = Len(draws)
          /\ unique_rand_breaks' = r.breaks
          /\ draws_used' = r.used
          /\ pc' = IF r.status = "panic" THEN "panic" ELSE "returned"
    /\ UNCHANGED <<inputs, num_vals, sorted_data, unique_val_map, num_unique_vals,
                   true_num_bins, gssd, rand_breaks, best_breaks, max_gvf,
                   permutations, trial, trial_log, nat_breaks, rngVars, twiceVars,
                   breaks_before>>

NextPick == PickCall
SpecPick == InitPick /\ [][NextPick]_vars

\* ------------------------------------- get_jenks_breaks on long constant data
\* Data lengths on both sides of each clamp of the trial count.  Vectors this
\* long are not written out: data is [value, len], standing for len copies of
\* value, for which get_jenks_breaks finds one unique value, a zero gssd, no
\* break to draw and a NaN score in every trial.
TrialSizes == {1, 4400, 4401, 1000000, 4400000, 4400001, 44000000}

InitSized ==
    /\ data \in [value : {0}, len : TrialSizes]
    /\ num_bins \in 0..MaxBins
    /\ pc = "start"
    /\ Unset
    /\ NoTape
    /\ NoTwice
    /\ NoPick

\* lines 65-97 on len copies of one value
SizedSetup ==
    /\ pc = "start"
    /\ \E tnb \in {Min(1, num_bins)} :
       \E checks \in Builds(SubOverflows(tnb, 1)) :
       \E bl \in {BreaksLen(tnb, checks)} :
          IF bl.panic \/ AllocPanics(bl.len)
          THEN /\ pc' = "panic"
               /\ UNCHANGED <<locals, permutations, num_vals, pseudo_rng>>
          ELSE /\ pc' = "loop"
               /\ num_vals' = data.len
               /\ sorted_data' = <<>>
               /\ unique_val_map' = <<[val |-> data.value, first |-> 0, count |-> data.len]>>
               /\ num_unique_vals' = 1
               /\ true_num_bins' = tnb
               /\ gssd' = FZero
               /\ rand_breaks' = ZeroVec(bl.len)
               /\ best_breaks' = ZeroVec(bl.len)
               /\ unique_rand_breaks' = ZeroVec(bl.len)
               /\ max_gvf' = FZero
               /\ permutations' = Permutations(data.len)
               /\ pseudo_rng' = SeedFromU64
    /\ UNCHANGED <<inputs, trial, trial_log, nat_breaks, tape, twiceVars, pickVars>>

\* lines 99-107 on len copies of one value: no draw, tssd / gssd = 0.0 / 0.0,
\* and the NaN score does not replace the best; every iteration is followed
\* (trial_log is not kept)
SizedTrial ==
    /\ pc = "loop"
    /\ trial < permutations
    /\ ~Improves(FSub(FOne, FDiv(FZero, gssd)), max_gvf)
    /\ trial' = trial + 1
    /\ UNCHANGED <<inputs, num_vals, pc, locals, permutations, trial_log, nat_breaks,
                   rngVars, twiceVars, pickVars>>

\* lines 109-116 on len copies of one value
SizedFinish ==
    /\ pc = "loop"
    /\ trial = permutations
    /\ nat_breaks' = <<>>
    /\ pc' = "done"
    /\ UNCHANGED <<inputs, num_vals, locals, permutations, trial, trial_log,
                   rngVars, twiceVars, pickVars>>

NextSized == SizedSetup \/ SizedTrial \/ SizedFinish
SpecTrials == InitSized /\ [][NextSized]_vars

\* ------------------------------------- two successive get_jenks_breaks calls
\* The generator is deterministic: what StdRng::seed_from_u64(123456789)
\* returns at each position is fixed, though not known.  tape holds the
\* outputs seen so far, as gen_range(1..num_unique_vals) maps them; a draw at
\* a position already on the tape returns what the tape holds there.
OnTape(draws) ==
    \A j \in 1..Len(draws) :
        pseudo_rng + j <= Len(tape) => tape[pseudo_rng + j] = draws[j]

InitTwice ==
    /\ data \in {s \in SeqsOf(CloseValues, 0, MaxLen) : Injective(s)}
    /\ num_bins \in 0..MaxBins
    /\ pc = "start"
    /\ Unset
    /\ NoTape
    /\ NoTwice
    /\ NoPick

\* one trial, the draws read from the generator
SeededTrial ==
    /\ pc = "loop"
    /\ trial < LoopBound
    /\ \E draws \in DrawSeqs(num_unique_vals, Len(unique_rand_breaks)) :
         /\ OnTape(draws)
         /\ \E order \in OrdersOf(draws) : TrialBody(draws, order)
         /\ tape' = IF pseudo_rng + Len(draws) > Len(tape)
                    THEN SubSeq(tape, 1, pseudo_rng) \o draws
                    ELSE tape
         /\ pseudo_rng' = pseudo_rng + Len(draws)

\* the first call has returned; the caller calls get_jenks_breaks again with
\* the same arguments.  Every local of the first call is gone.
CallAgain ==
    /\ pc = "done"
    /\ call = 1
    /\ call' = 2
    /\ first_breaks' = nat_breaks
    /\ first_log' = trial_log
    /\ pc' = "start"
    /\ sorted_data' = <<>>
    /\ unique_val_map' = <<>>
    /\ num_unique_vals' = 0
    /\ true_num_bins' = 0
    /\ gssd' = FZero
    /\ rand_breaks' = <<>>
    /\ best_breaks' = <<>>
    /\ unique_rand_breaks' = <<>>
    /\ max_gvf' = FZero
    /\ permutations' = 0
    /\ trial' = 0
    /\ trial_log' = <<>>
    /\ nat_breaks' = <<>>
    /\ num_vals' = 0
    /\ UNCHANGED <<inputs, rngVars, pickVars>>

NextTwice == Setup \/ SeededTrial \/ Finish \/ CallAgain
SpecTwice == InitTwice /\ [][NextTwice]_vars

\* ===================================================================== claims
UniqueCount == Cardinality(Range(data))
EffectiveBins == Min(num_bins, UniqueCount)
ValidInput == Len(data) >= 1 /\ num_bins >= 1
StrictlyIncreasing(s) == \A j, l \in 1..Len(s) : j < l => s[j] < s[l]

\* C1: for non-empty data and k >= 1, get_jenks_breaks returns, and returns
\* exactly min(k, number of unique values) - 1 breaks: none when k = 1 or when
\* all values are identical.
C1_BreakCount ==
    ValidInput =>
        /\ pc # "panic"
        /\ pc = "done" =>
              /\ Len(nat_breaks) = EffectiveBins - 1
              /\ (num_bins = 1 \/ UniqueCount = 1) => nat_breaks = <<>>
\* a call returned fewer breaks than requested bins - 1, the unique values
\* being the smaller number
C1_Witness ==
    /\ pc = "done"
    /\ UniqueCount = 2
    /\ num_bins = 3
    /\ Len(nat_breaks) = 1

\* C2: for non-empty data and k >= 1, every returned break is a value of the
\* data and the returned breaks are strictly increasing.
C2_BreaksAreDataValuesIncreasing ==
    (ValidInput /\ pc = "done") =>
        /\ \A j \in 1..Len(nat_breaks) : nat_breaks[j] \in Range(data)
        /\ StrictlyIncreasing(nat_breaks)

\* C4: empty data or a bin count of 0 is rejected before the search begins: the
\* call ends in a panic, runs no trial and returns no breaks.
C4_InvalidInputRejected ==
    (Len(data) = 0 \/ num_bins = 0) =>
        /\ pc \in {"start", "panic"}
        /\ trial = 0
        /\ trial_log = <<>>
        /\ nat_breaks = <<>>
\* a call with a bin count of 0 on non-empty data has panicked
C4_Witness == pc = "panic" /\ num_bins = 0 /\ Len(data) >= 2

\* C5: when all data values are identical, get_jenks_breaks returns no breaks
\* and runs no trial, so calc_gvf never divides by the zero global SSD.
C5_IdenticalDataBypassesSearch ==
    (ValidInput /\ UniqueCount = 1) =>
        /\ trial = 0
        /\ trial_log = <<>>
        /\ pc = "done" => nat_breaks = <<>>

\* trial j's score is the maximum of the trials' scores: it is a number, and
\* no trial's score is greater
IsMaximum(j) ==
    /\ trial_log[j].gvf.k # "nan"
    /\ \A l \in 1..Len(trial_log) : ~FGt(trial_log[l].gvf, trial_log[j].gvf)
\* C8: after the trial loop (effective bins >= 2) the recorded best boundary
\* set and score are those of the earliest trial whose score is the maximum
\* over all trials.
C8_BestIsEarliestMaximum ==
    (pc = "done" /\ ValidInput /\ EffectiveBins >= 2) =>
        \E j \in 1..Len(trial_log) :
            /\ IsMaximum(j)
            /\ \A l \in 1..(j - 1) : ~IsMaximum(l)
            /\ best_breaks = trial_log[j].breaks
            /\ max_gvf = trial_log[j].gvf

\* what C10 asks of a boundary set handed to calc_gvf
WellFormed(b) ==
    /\ Len(b) = EffectiveBins - 1
    /\ StrictlyIncreasing(b)
    /\ \A j \in 1..Len(b) :
          /\ 1 <= b[j] /\ b[j] <= Len(data) - 1
          /\ sorted_data[b[j] + 1] # sorted_data[b[j]]
    /\ \A bin \in 0..Len(b) : Lower(b, bin) < Upper(b, sorted_data, bin)
\* C10: in every trial on non-empty data with k >= 1, the boundary set scored
\* has effective_bins - 1 strictly increasing indices in [1, n-1], each the
\* start of a run of equal values; every partition scored is non-empty, and
\* no trial panics.
C10_TrialBoundariesWellFormed ==
    ValidInput =>
        /\ pc # "panic"
        /\ \A j \in 1..Len(trial_log) : WellFormed(trial_log[j].breaks)
        /\ trial >= 1 => WellFormed(rand_breaks)
\* a trial scored two boundaries, the first after a run of equal values
C10_Witness ==
    /\ trial >= 1
    /\ Len(rand_breaks) = 2
    /\ rand_breaks[1] >= 2
    /\ Len(trial_log) = trial

\* C6: called with count = len(breaks) <= num_vals - 1, pick_rand_breaks
\* returns with breaks holding count pairwise distinct integers of
\* [1, num_vals) in ascending order, whatever the generator draws.
C6_PickFillsDistinctAscending ==
    (pc = "returned" /\ Len(breaks_before) <= num_unique_vals - 1) =>
        /\ Len(unique_rand_breaks) = Len(breaks_before)
        /\ \A j \in 1..Len(unique_rand_breaks) :
              1 <= unique_rand_breaks[j] /\ unique_rand_breaks[j] < num_unique_vals
        /\ StrictlyIncreasing(unique_rand_breaks)
        /\ draws_used >= Len(breaks_before)
\* a call filled two breaks after the generator repeated a value
C6_Witness ==
    /\ pc = "returned"
    /\ Len(breaks_before) = 2
    /\ num_unique_vals >= 3
    /\ draws_used = 3
    /\ unique_rand_breaks # breaks_before

\* C7: called with count = len(breaks) > num_vals - 1, for any num_vals >= 0,
\* pick_rand_breaks returns normally, leaves breaks as they were and draws
\* nothing.
C7_PickNoOpWhenTooMany ==
    (pc # "pick" /\ Len(breaks_before) > num_unique_vals - 1) =>
        /\ pc = "returned"
        /\ unique_rand_breaks = breaks_before
        /\ draws_used = 0

Clamp(x, lo, hi) == IF x < lo THEN lo ELSE IF x > hi THEN hi ELSE x
C3_SecondCallRepeatsFirst ==
    call = 2 =>
        /\ Len(trial_log) <= Len(first_log)
        /\ trial_log = SubSeq(first_log, 1, Len(trial_log))
        /\ pc = "done" => (nat_breaks = first_breaks /\ trial_log = first_log)
\* the second call returned breaks after trials that scored different
\* candidates
C3_Witness ==
    /\ call = 2
    /\ pc = "done"
    /\ nat_breaks # <<>>
    /\ \E j, l \in 1..Len(first_log) : first_log[j].breaks # first_log[l].breaks

====
